---- MODULE Spec2Model ----
(***************************************************************************)
(* Model of the validated execution contract of api-template               *)
(* (buildFunctionContext / execute), of the two contracts built with it    *)
(* (foo, createUser) and of the POST /users route that calls createUser.   *)
(*                                                                         *)
(* JavaScript values are modelled as records [kind, prim, fields]:         *)
(*   kind   "null" | "undefined" | "prim" | "object"                       *)
(*   prim   the primitive (an atom) when kind = "prim"                     *)
(*   fields the own properties of an object: Keys -> atom or Absent        *)
(* Atoms are strings; the atoms of NumberAtoms stand for JS numbers, every *)
(* other atom is the JS string with that text.                             *)
(***************************************************************************)
EXTENDS Integers, Sequences, FiniteSets, TLC

\* Number of execute calls (or HTTP requests) in flight on one contract.
MaxCalls == 2

Calls == 1..MaxCalls

------------------------------------------------------------------------------
\* Values

Absent == "<absent>"

Keys == {"id", "name", "message", "code"}

NumberAtoms == {"#1", "#-1"}

NumberOf(a) == IF a = "#-1" THEN -1 ELSE 1

IsNumber(a) == a \in NumberAtoms

IsString(a) == a # Absent /\ a \notin NumberAtoms

NoFields == [k \in Keys |-> Absent]

Null == [kind |-> "null", prim |-> Absent, fields |-> NoFields]

Undefined == [kind |-> "undefined", prim |-> Absent, fields |-> NoFields]

Prim(a) == [kind |-> "prim", prim |-> a, fields |-> NoFields]

Obj(f) == [kind |-> "object", prim |-> Absent, fields |-> f]

Obj1(k, a) == Obj([NoFields EXCEPT ![k] = a])

Obj2(k1, a1, k2, a2) == Obj([NoFields EXCEPT ![k1] = a1, ![k2] = a2])

Obj3(k1, a1, k2, a2, k3, a3) ==
    Obj([NoFields EXCEPT ![k1] = a1, ![k2] = a2, ![k3] = a3])

\* { res, err }: the two-slot result.
Envelope(res, err) == [res |-> res, err |-> err]

\* A thrown value: an Error instance with a message, or anything else.
ErrorOf(m) == [isError |-> TRUE, message |-> m]

NonError(m) == [isError |-> FALSE, message |-> m]

NoException == [isError |-> FALSE, message |-> "<none>"]

------------------------------------------------------------------------------
\* Schemas (zod)

NoShape == [k \in Keys |-> "-"]

ZObject(shape) == [kind |-> "object", shape |-> shape, nullable |-> FALSE]

ZNullable(s) == [s EXCEPT !.nullable = TRUE]

FieldConforms(type, a) ==
    CASE type = "-" -> TRUE
      [] type = "number" -> IsNumber(a)
      [] type = "string" -> IsString(a)
      [] type = "string.min(1)" -> IsString(a) /\ a # ""

\* z.object strips the keys its shape does not name.
Strip(shape, f) == [k \in Keys |-> IF shape[k] = "-" THEN Absent ELSE f[k]]

Failure == [success |-> FALSE, data |-> Undefined]

Success(v) == [success |-> TRUE, data |-> v]

SafeParse(schema, v) ==
    IF v.kind = "null" THEN (IF schema.nullable THEN Success(Null) ELSE Failure)
    ELSE IF v.kind # "object" THEN Failure
    ELSE IF \A k \in Keys : FieldConforms(schema.shape[k], v.fields[k])
         THEN Success(Obj(Strip(schema.shape, v.fields)))
         ELSE Failure

------------------------------------------------------------------------------
\* Messages of the errors execute builds itself

InvalidInputMsg == "Invalid input"

\* The malformed response's message used for a malformed error too.
InvalidErrorMsgReused == "Execution returned an invalid response object"

InvalidErrorMsg == "Execution returned an invalid error object"

\* The input failure's message reused for a malformed response.
InvalidResponseMsgReused == "Invalid input"

InvalidResponseMsg == "Execution returned an invalid response object"

UnknownErrorMsg == "Unknown error"

\* The engine's TypeError text for reading .err of undefined.
TypeErrorMsg == "undefined is not an object (evaluating 'result.err')"

\* An error constructor that drops the message it is given.
errorCreatorGeneric(message) == Obj1("message", UnknownErrorMsg)

\* const errorCreator = (message) => ({ message }) as E
errorCreator(message) == Obj1("message", message)

------------------------------------------------------------------------------
\* Contracts: the parameters buildFunctionContext is called with

IdSchema == ZObject([NoShape EXCEPT !["id"] = "number"])

UserSchema == ZObject([NoShape EXCEPT !["id"] = "number", !["name"] = "string"])

MessageSchema == ZObject([NoShape EXCEPT !["message"] = "string"])

NameSchema == ZObject([NoShape EXCEPT !["name"] = "string.min(1)"])

\* An error schema richer than { message: string }.
CodedErrorSchema ==
    ZObject([NoShape EXCEPT !["code"] = "number", !["message"] = "string"])

foo ==
    [inputSchema |-> IdSchema, responseSchema |-> UserSchema,
     errorSchema |-> MessageSchema, execution |-> "foo"]

createUser ==
    [inputSchema |-> NameSchema, responseSchema |-> UserSchema,
     errorSchema |-> MessageSchema, execution |-> "createUser"]

\* foo's schemas around a handler that may do anything (a test stub).
StubContract == [foo EXCEPT !.execution = "stub"]

\* A success schema that accepts null.
NullableContract == [StubContract EXCEPT !.responseSchema = ZNullable(UserSchema)]

\* An error schema a bare { message } does not satisfy.
CodedErrorContract == [StubContract EXCEPT !.errorSchema = CodedErrorSchema]

Contracts == {foo, StubContract, NullableContract, CodedErrorContract}

------------------------------------------------------------------------------
\* Handlers: what execution({ input, error }) can do

\* What the handler's promise fulfils with: { res, err }, or not an object.
Returned(res, err) == [defined |-> TRUE, res |-> res, err |-> err]

NotAnObject == [defined |-> FALSE, res |-> Undefined, err |-> Undefined]

Fulfil(v) == [type |-> "fulfil", value |-> v, exception |-> NoException]

Reject(ex) == [type |-> "reject", value |-> NotAnObject, exception |-> ex]

Throw(ex) == [type |-> "throw", value |-> NotAnObject, exception |-> ex]

Hang == [type |-> "hang", value |-> NotAnObject, exception |-> NoException]

NoBehaviour == [type |-> "none", value |-> NotAnObject, exception |-> NoException]

\* foo's execution: negative ids are declared errors.
FooExecution(input) ==
    IF NumberOf(input.fields["id"]) < 0
    THEN {Fulfil(Returned(Null, errorCreator("Invalid ID")))}
    ELSE {Fulfil(Returned(Obj2("id", input.fields["id"], "name", "Test"), Null))}

\* What client.query can do: return the inserted row, return no row, throw
\* an Error, throw something else, or never answer.
QueryThrows == {ErrorOf("duplicate key"), NonError(Absent)}

CreateUserExecution(input) ==
    {Fulfil(Returned(row, Null)) :
        row \in {Obj2("id", "#1", "name", input.fields["name"]), Undefined}}
    \cup {Fulfil(Returned(Null,
            errorCreator(IF e.isError THEN e.message ELSE UnknownErrorMsg))) :
          e \in QueryThrows}
    \cup {Hang}

\* What a stub handler returns.
StubReturns ==
    { Returned(Obj3("id", "#1", "name", "Test", "code", "#1"), Null),
      Returned(Prim("not-an-object"), Null),
      Returned(Null, Obj1("message", "Invalid ID")),
      Returned(Obj2("id", "#1", "name", "Test"), Obj2("message", "Invalid ID", "id", "#1")),
      Returned(Null, Null),
      Returned(Null, Obj1("code", "#1")),
      NotAnObject }

\* What a stub handler throws.
StubThrows ==
    { ErrorOf("boom"), ErrorOf(InvalidInputMsg), NonError("boom"), NonError(Absent) }

\* A stub that is no async function can also throw before it returns a promise.
StubExecution ==
    {Fulfil(v) : v \in StubReturns}
    \cup {Reject(ex) : ex \in StubThrows}
    \cup {Throw(ErrorOf("boom"))}
    \cup {Hang}

Execution(kind, input) ==
    CASE kind = "foo" -> FooExecution(input)
      [] kind = "createUser" -> CreateUserExecution(input)
      [] kind = "stub" -> StubExecution

\* What callers pass to execute.
RawInputs ==
    { Obj1("id", "#1"), Obj1("id", "#-1"), Obj1("id", "not-a-number"), Null }

------------------------------------------------------------------------------
\* State

VARIABLES
    ctx,              \* the contract: schemas and handler bound at construction
    pc,               \* per call: where the call is
    rawInput,         \* per call: the argument of execute
    parsedInput,      \* per frame: const parsedInput
    promise,          \* per call: the promise execution(...) returned, and what
                      \* the call saw the handler do
    result,           \* per frame: const result (what the await produced)
    caught,           \* per frame: the exception in flight (catch (e))
    settled,          \* per call: what execute's own promise settled with
    inputValidations, \* per call: inputSchema.safeParse calls
    handlerCalls,     \* per call: execution(...) calls
    outputValidations,\* per call: runs of the output validation block
    outputSchema,     \* per call: the schema the output validation ran
    route,            \* per request: where the /users route handler is
    request,          \* per request: method and body text
    executeCalls,     \* per request: createUser.execute calls the route made
    response          \* per request: the HTTP response sent

vars ==
    <<ctx, pc, rawInput, parsedInput, promise, result, caught, settled,
      inputValidations, handlerCalls, outputValidations, outputSchema, route,
      request, executeCalls, response>>

contractVars == <<ctx>>

counters == <<inputValidations, handlerCalls, outputValidations, outputSchema>>

httpVars == <<route, request, executeCalls, response>>

\* The locals hoisted out of execute: one frame for every call.
SharedFrame(c) == CHOOSE d \in Calls : TRUE

\* Every invocation of the async function has its own activation frame:
\* parsedInput, result and e are locals of the call.
Frame(c) == c

NoPromise == [state |-> "none", behaviour |-> NoBehaviour]

NoSettlement == [state |-> "pending", value |-> Envelope(Undefined, Undefined),
                 reason |-> NoException]

Resolved(env) == [state |-> "resolved", value |-> env, reason |-> NoException]

Rejected(ex) ==
    [state |-> "rejected", value |-> Envelope(Undefined, Undefined), reason |-> ex]

NoRequest == [method |-> "-", body |-> "-"]

NoResponse == [status |-> 0, body |-> Undefined]

InitCalls ==
    /\ pc = [c \in Calls |-> "NOT_CALLED"]
    /\ rawInput = [c \in Calls |-> Undefined]
    /\ parsedInput = [c \in Calls |-> Failure]
    /\ promise = [c \in Calls |-> NoPromise]
    /\ result = [c \in Calls |-> NotAnObject]
    /\ caught = [c \in Calls |-> NoException]
    /\ settled = [c \in Calls |-> NoSettlement]
    /\ inputValidations = [c \in Calls |-> 0]
    /\ handlerCalls = [c \in Calls |-> 0]
    /\ outputValidations = [c \in Calls |-> 0]
    /\ outputSchema = [c \in Calls |-> "none"]
    /\ route = [c \in Calls |-> "idle"]
    /\ request = [c \in Calls |-> NoRequest]
    /\ executeCalls = [c \in Calls |-> 0]
    /\ response = [c \in Calls |-> NoResponse]

Init ==
    /\ ctx \in Contracts
    /\ InitCalls

\* The server: the route table calls createUser.
InitRoute ==
    /\ ctx = createUser
    /\ InitCalls

------------------------------------------------------------------------------
\* execute

\* A try block that encloses nothing.
InTryNever(step) == FALSE

\* A try block that starts after the handler call.
InTryLate(step) == step = "OUTPUT_VALIDATING"

\* The steps of execute that the try block encloses.
InTry(step) == step \in {"HANDLER_RUNNING", "OUTPUT_VALIDATING"}

\* An exception thrown at a step: the catch clause takes it when the step is
\* inside the try block, otherwise it rejects the promise execute returned.
Raise(c, ex, step) ==
    IF InTry(step)
    THEN /\ pc' = [pc EXCEPT ![c] = "FAULTED"]
         /\ caught' = [caught EXCEPT ![Frame(c)] = ex]
         /\ UNCHANGED settled
    ELSE /\ pc' = [pc EXCEPT ![c] = "ESCAPED"]
         /\ settled' = [settled EXCEPT ![c] = Rejected(ex)]
         /\ UNCHANGED caught

\* return { res, err } from the async function.
Return(c, env) ==
    /\ pc' = [pc EXCEPT ![c] = "RESOLVED"]
    /\ settled' = [settled EXCEPT ![c] = Resolved(env)]

\* execute(input) is called.
Enter(c, input) ==
    /\ pc[c] = "NOT_CALLED"
    /\ pc' = [pc EXCEPT ![c] = "PENDING"]
    /\ rawInput' = [rawInput EXCEPT ![c] = input]
    /\ UNCHANGED <<contractVars, parsedInput, promise, result, caught, settled,
                   counters>>

\* The check on parsedInput.success left out.
InputAcceptedUnchecked(parsed) == TRUE

\* if (!parsedInput.success) return ...: the handler runs only on success.
InputAccepted(parsed) == parsed.success

\* The await left out: the function goes on whether the promise has settled
\* or not.
NotAwaited(p) == p.state \in {"pending", "never", "settled"}

\* await: the function goes on only once the promise has settled.
Awaited(p) == p.state = "settled"

\* The two slots swapped.
SuccessEnvelopeSwapped(parsedRes) == Envelope(Null, parsedRes.data)

\* return { res: parsedRes.data, err: null }
SuccessEnvelope(parsedRes) == Envelope(parsedRes.data, Null)

\* An error that counts only when the value slot is empty.
ErrorDeclaredAlone(r) == r.err # Null /\ r.res = Null

\* if (result.err !== null): a non-null error decides, whatever the value.
ErrorDeclared(r) == r.err # Null

\* return { res: null, err: parsedErr.data }
ErrorEnvelope(parsedErr) == Envelope(Null, parsedErr.data)

\* A caller in the same process calls execute(input).
Call(c, input) ==
    /\ route[c] = "idle"
    /\ Enter(c, input)
    /\ UNCHANGED httpVars

\* const parsedInput = inputSchema.safeParse(input)
ValidateInput(c) ==
    /\ pc[c] = "PENDING"
    /\ parsedInput' =
         [parsedInput EXCEPT ![Frame(c)] = SafeParse(ctx.inputSchema, rawInput[c])]
    /\ inputValidations' = [inputValidations EXCEPT ![c] = @ + 1]
    /\ pc' = [pc EXCEPT ![c] = "INPUT_VALIDATING"]
    /\ UNCHANGED <<contractVars, rawInput, promise, result, caught, settled,
                   handlerCalls, outputValidations, outputSchema, httpVars>>

\* if (!parsedInput.success)
RejectInput(c) ==
    /\ pc[c] = "INPUT_VALIDATING"
    /\ ~InputAccepted(parsedInput[Frame(c)])
    /\ pc' = [pc EXCEPT ![c] = "REJECTED"]
    /\ UNCHANGED <<contractVars, rawInput, parsedInput, promise, result, caught,
                   settled, counters, httpVars>>

\* const err = { message: "Invalid input" } as E; return { res: null, err }
ReturnInvalidInput(c) ==
    /\ pc[c] = "REJECTED"
    /\ Return(c, Envelope(Null, Obj1("message", InvalidInputMsg)))
    /\ UNCHANGED <<contractVars, rawInput, parsedInput, promise, result, caught,
                   counters, httpVars>>

\* What the call of execution, and then the await, can observe the handler
\* do, given its parsed input.
Outcomes(c, types) ==
    {b \in Execution(ctx.execution, parsedInput[Frame(c)].data) : b.type \in types}

\* execution({ input: parsedInput.data, error: errorCreator }): the handler
\* runs; it throws at once, or hands back a promise that will settle, or one
\* that never will.
InvokeHandler(c) ==
    /\ pc[c] = "INPUT_VALIDATING"
    /\ InputAccepted(parsedInput[Frame(c)])
    /\ \E b \in Execution(ctx.execution, parsedInput[Frame(c)].data) :
         promise' = [promise EXCEPT ![c] =
             CASE b.type = "throw" -> [state |-> "threw", behaviour |-> b]
               [] b.type = "hang" -> [state |-> "never", behaviour |-> NoBehaviour]
               [] OTHER -> [state |-> "pending", behaviour |-> NoBehaviour]]
    /\ handlerCalls' = [handlerCalls EXCEPT ![c] = @ + 1]
    /\ pc' = [pc EXCEPT ![c] = "HANDLER_RUNNING"]
    /\ UNCHANGED <<contractVars, rawInput, parsedInput, result, caught, settled,
                   inputValidations, outputValidations, outputSchema, httpVars>>

\* The handler's promise settles (the handler's own I/O completes). What it
\* settles with is drawn when the await observes it.
HandlerSettle(c) ==
    /\ pc[c] = "HANDLER_RUNNING"
    /\ promise[c].state = "pending"
    /\ Outcomes(c, {"fulfil", "reject"}) # {}
    /\ promise' = [promise EXCEPT ![c].state = "settled"]
    /\ UNCHANGED <<contractVars, pc, rawInput, parsedInput, result, caught,
                   settled, counters, httpVars>>

\* const result = await ...: the await completes with the fulfilled value.
Resume(c) ==
    /\ pc[c] = "HANDLER_RUNNING"
    /\ Awaited(promise[c])
    /\ \E b \in Outcomes(c, {"fulfil"}) :
         /\ promise' = [promise EXCEPT ![c].behaviour = b]
         /\ result' = [result EXCEPT ![Frame(c)] = b.value]
    /\ pc' = [pc EXCEPT ![c] = "OUTPUT_VALIDATING"]
    /\ UNCHANGED <<contractVars, rawInput, parsedInput, caught, settled,
                   counters, httpVars>>

\* The handler threw: control goes to the catch clause.
HandlerThrows(c) ==
    /\ pc[c] = "HANDLER_RUNNING"
    /\ promise[c].state = "threw"
    /\ Raise(c, promise[c].behaviour.exception, "HANDLER_RUNNING")
    /\ UNCHANGED <<contractVars, rawInput, parsedInput, promise, result,
                   counters, httpVars>>

\* The await completes with a rejection: it throws the reason.
AwaitRejects(c) ==
    /\ pc[c] = "HANDLER_RUNNING"
    /\ Awaited(promise[c])
    /\ \E b \in Outcomes(c, {"reject"}) :
         /\ promise' = [promise EXCEPT ![c].behaviour = b]
         /\ Raise(c, b.exception, "HANDLER_RUNNING")
    /\ UNCHANGED <<contractVars, rawInput, parsedInput, result, counters, httpVars>>

\* if (result.err !== null) { errorSchema.safeParse ... } else
\* { responseSchema.safeParse ... }
ValidateOutput(c) ==
    /\ pc[c] = "OUTPUT_VALIDATING"
    /\ LET r == result[Frame(c)]
           parsedErr == SafeParse(ctx.errorSchema, r.err)
           parsedRes == SafeParse(ctx.responseSchema, r.res)
       IN  IF ~r.defined
           THEN /\ Raise(c, ErrorOf(TypeErrorMsg), "OUTPUT_VALIDATING")
                /\ UNCHANGED outputSchema
           ELSE IF ErrorDeclared(r)
                THEN /\ outputSchema' = [outputSchema EXCEPT ![c] = "errorSchema"]
                     /\ IF ~parsedErr.success
                        THEN Raise(c, ErrorOf(InvalidErrorMsg), "OUTPUT_VALIDATING")
                        ELSE /\ Return(c, ErrorEnvelope(parsedErr))
                             /\ UNCHANGED caught
                ELSE /\ outputSchema' = [outputSchema EXCEPT ![c] = "responseSchema"]
                     /\ IF ~parsedRes.success
                        THEN Raise(c, ErrorOf(InvalidResponseMsg), "OUTPUT_VALIDATING")
                        ELSE /\ Return(c, SuccessEnvelope(parsedRes))
                             /\ UNCHANGED caught
    /\ outputValidations' = [outputValidations EXCEPT ![c] = @ + 1]
    /\ UNCHANGED <<contractVars, rawInput, parsedInput, promise, result,
                   inputValidations, handlerCalls, httpVars>>

\* A catch clause that runs the handler again.
CatchRetry(c) ==
    /\ pc[c] = "FAULTED"
    /\ pc' = [pc EXCEPT ![c] = "INPUT_VALIDATING"]
    /\ UNCHANGED <<contractVars, rawInput, parsedInput, promise, result, caught,
                   settled, counters, httpVars>>

\* catch (e) { const err = errorCreator(e instanceof Error ? e.message
\* : "Unknown error"); return { res: null, err } }
Catch(c) ==
    /\ pc[c] = "FAULTED"
    /\ LET e == caught[Frame(c)]
       IN  Return(c, Envelope(Null,
               errorCreator(IF e.isError THEN e.message ELSE UnknownErrorMsg)))
    /\ UNCHANGED <<contractVars, rawInput, parsedInput, promise, result, caught,
                   counters, httpVars>>

ExecuteStep(c) ==
        \/ ValidateInput(c)
        \/ RejectInput(c)
        \/ ReturnInvalidInput(c)
        \/ InvokeHandler(c)
        \/ HandlerSettle(c)
        \/ Resume(c)
        \/ HandlerThrows(c)
        \/ AwaitRejects(c)
        \/ ValidateOutput(c)
        \/ Catch(c)

Next ==
    \E c \in Calls :
        \/ \E input \in RawInputs : Call(c, input)
        \/ ExecuteStep(c)

Spec == Init /\ [][Next]_vars

\* The event loop runs every continuation that is ready, and a promise that is
\* pending (not one that never settles) does settle.
FairSpec == Spec /\ \A c \in Calls : WF_vars(ExecuteStep(c))

------------------------------------------------------------------------------
\* The /users route

Methods == {"POST", "GET"}

\* Request bodies, as text.
Bodies ==
    { "{\"name\":\"Ann\"}", "{\"name\":\"\"}", "{\"id\":1}", "null", "{\"name\":" }

\* req.json(): the parsed value, or a SyntaxError.
Json(text) ==
    CASE text = "{\"name\":\"Ann\"}" -> Success(Obj1("name", "Ann"))
      [] text = "{\"name\":\"\"}" -> Success(Obj1("name", ""))
      [] text = "{\"id\":1}" -> Success(Obj1("id", "#1"))
      [] text = "null" -> Success(Null)
      [] OTHER -> Failure

\* if (result.err !== undefined) in place of the truthiness test.
NotUndefined(v) == v.kind # "undefined"

\* JavaScript truthiness, as if (result.err) tests it.
Truthy(v) ==
    CASE v.kind \in {"null", "undefined"} -> FALSE
      [] v.kind = "prim" -> v.prim # ""
      [] OTHER -> TRUE

\* Response.json(body, { status })
ResponseJson(body, status) == [status |-> status, body |-> body]

Respond(c, r) ==
    /\ response' = [response EXCEPT ![c] = r]
    /\ route' = [route EXCEPT ![c] = "responded"]

executeVars ==
    <<pc, rawInput, parsedInput, promise, result, caught, settled, counters>>

\* The server hands a request for /users to the route handler.
Receive(c, method, body) ==
    /\ route[c] = "idle"
    /\ pc[c] = "NOT_CALLED"
    /\ request' = [request EXCEPT ![c] = [method |-> method, body |-> body]]
    /\ route' = [route EXCEPT ![c] = "received"]
    /\ UNCHANGED <<contractVars, executeVars, executeCalls, response>>

\* Neither branch returned: 405.
MethodNotAllowed(c) ==
    /\ route[c] = "received"
    /\ request[c].method # "POST"
    /\ Respond(c, ResponseJson(Obj1("message", "Method Not Allowed"), 405))
    /\ UNCHANGED <<contractVars, executeVars, request, executeCalls>>

\* const body = await req.json(): a SyntaxError goes to the catch clause.
InvalidJson(c) ==
    /\ route[c] = "received"
    /\ request[c].method = "POST"
    /\ ~Json(request[c].body).success
    /\ Respond(c, ResponseJson(Obj1("message", "Invalid JSON"), 400))
    /\ UNCHANGED <<contractVars, executeVars, request, executeCalls>>

\* const body = await req.json(); createUser.execute(body)
CallCreateUser(c) ==
    /\ route[c] = "received"
    /\ request[c].method = "POST"
    /\ Json(request[c].body).success
    /\ Enter(c, Json(request[c].body).data)
    /\ executeCalls' = [executeCalls EXCEPT ![c] = @ + 1]
    /\ route' = [route EXCEPT ![c] = "awaiting"]
    /\ UNCHANGED <<request, response>>

\* const result = await createUser.execute(body); if (result.err) 400 else 201.
\* A rejection of execute's promise would go to the catch clause.
RouteRespond(c) ==
    /\ route[c] = "awaiting"
    /\ settled[c].state # "pending"
    /\ LET res == settled[c].value
       IN  IF settled[c].state = "rejected"
           THEN Respond(c, ResponseJson(Obj1("message", "Invalid JSON"), 400))
           ELSE IF Truthy(res.err)
                THEN Respond(c, ResponseJson(res.err, 400))
                ELSE Respond(c, ResponseJson(res.res, 201))
    /\ UNCHANGED <<contractVars, executeVars, request, executeCalls>>

\* createUser's execution encloses its whole body in try/catch: its promise
\* never rejects, so no step of execute takes the rejection path.
CreateUserStep(c) ==
        \/ ValidateInput(c)
        \/ RejectInput(c)
        \/ ReturnInvalidInput(c)
        \/ InvokeHandler(c)
        \/ HandlerSettle(c)
        \/ Resume(c)
        \/ ValidateOutput(c)
        \/ Catch(c)

NextRoute ==
    \E c \in Calls :
        \/ \E method \in Methods, body \in Bodies : Receive(c, method, body)
        \/ MethodNotAllowed(c)
        \/ InvalidJson(c)
        \/ CallCreateUser(c)
        \/ CreateUserStep(c)
        \/ RouteRespond(c)

SpecRoute == InitRoute /\ [][NextRoute]_vars

------------------------------------------------------------------------------
\* Properties

IsNull(v) == v.kind = "null"

InputPasses(c) == SafeParse(ctx.inputSchema, rawInput[c]).success

Called(c) == pc[c] # "NOT_CALLED"

Resolved_(c) == pc[c] = "RESOLVED"

\* The message of the error a resolved call carries.
MessageOf(c) == settled[c].value.err.fields["message"]

\* What the handler did, for a call whose handler was invoked.
HandlerThrew(c) == promise[c].behaviour.type \in {"throw", "reject"}

HandlerReturned(c) == promise[c].behaviour.type = "fulfil"

\* C1 (Totality): whatever the raw input and whatever the handler does
\* (returns, resolves late, throws, rejects), the promise execute returned
\* never rejects and no exception escapes; a call that is resolved carries an
\* envelope with both slots set; and every call that was made resolves, unless
\* its handler's promise never settles.
C1_Totality ==
    /\ [](\A c \in Calls :
            /\ pc[c] # "ESCAPED"
            /\ settled[c].state # "rejected"
            /\ Resolved_(c) <=> settled[c].state = "resolved"
            /\ Resolved_(c) =>
                 /\ settled[c].value.res.kind \in {"null", "object"}
                 /\ settled[c].value.err.kind \in {"null", "object"})
    /\ \A c \in Calls :
         (pc[c] = "PENDING") ~> (Resolved_(c) \/ promise[c].state = "never")

\* A call resolved although its handler threw or rejected, with a thrown
\* value that is no Error.
C1_Witness ==
    \E c \in Calls :
        /\ Resolved_(c)
        /\ HandlerThrew(c)
        /\ ~promise[c].behaviour.exception.isError
        /\ settled[c].state = "resolved"

\* C2 (Mutual exclusivity): every resolved result has exactly one of the
\* value slot and the error slot non-null.
C2_MutualExclusivity ==
    \A c \in Calls :
        Resolved_(c) =>
            (IsNull(settled[c].value.res) # IsNull(settled[c].value.err))

\* C3 (Schema conformance): in every resolved result the non-null slot
\* validates against its schema, whatever the origin of the error and whatever
\* error schema the contract was built with.
C3_SchemaConformance ==
    \A c \in Calls :
        Resolved_(c) =>
            /\ ~IsNull(settled[c].value.err) =>
                 SafeParse(ctx.errorSchema, settled[c].value.err).success
            /\ ~IsNull(settled[c].value.res) =>
                 SafeParse(ctx.responseSchema, settled[c].value.res).success

\* C4 (Input-validation short-circuit): a call whose raw input fails the
\* input schema never invokes the handler, and resolves with value null and
\* the error { message: "Invalid input" }.
C4_InputShortCircuit ==
    \A c \in Calls :
        (Called(c) /\ ~InputPasses(c)) =>
            /\ handlerCalls[c] = 0
            /\ promise[c].state = "none"
            /\ pc[c] \in {"PENDING", "INPUT_VALIDATING", "REJECTED", "RESOLVED"}
            /\ Resolved_(c) =>
                 /\ IsNull(settled[c].value.res)
                 /\ settled[c].value.err = Obj1("message", "Invalid input")

\* A call with a failing input has resolved.
C4_Witness ==
    \E c \in Calls :
        /\ Resolved_(c)
        /\ ~InputPasses(c)
        /\ inputValidations[c] = 1

\* The three failure kinds the claim C5 tells apart.
FailureKind(c) ==
    CASE ~Resolved_(c) -> "none"
      [] ~InputPasses(c) -> "input"
      [] HandlerThrew(c) -> "exception"
      [] /\ HandlerReturned(c)
         /\ promise[c].behaviour.value.defined
         /\ IsNull(promise[c].behaviour.value.err)
         /\ ~SafeParse(ctx.responseSchema, promise[c].behaviour.value.res).success
         -> "response"
      [] OTHER -> "none"

\* The messages execute fixes for an input failure and a malformed success.
FixedMessages == {"Invalid input", "Execution returned an invalid response object"}

\* The handler threw an Error whose own message is one of the fixed ones.
ThrewFixedMessage(c) ==
    /\ FailureKind(c) = "exception"
    /\ promise[c].behaviour.exception.isError
    /\ promise[c].behaviour.exception.message \in FixedMessages

\* C5 as stated (Error-message discrimination): two calls that failed in
\* different ways (input failure, malformed success value, thrown exception)
\* carry different error messages, whatever message the handler throws.
C5_Discrimination ==
    \A c, d \in Calls :
        (/\ FailureKind(c) # "none"
         /\ FailureKind(d) # "none"
         /\ FailureKind(c) # FailureKind(d))
        => MessageOf(c) # MessageOf(d)

\* C5 as amended: the messages of an input failure and of a malformed success
\* value are the two fixed, different strings; a thrown Error's message is the
\* Error's own (and "Unknown error" for a thrown non-Error), so the three kinds
\* carry different messages whenever the handler did not throw an Error whose
\* message is itself one of the two fixed strings.
C5_DiscriminationAmended ==
    /\ \A c \in Calls :
         /\ FailureKind(c) = "input" => MessageOf(c) = "Invalid input"
         /\ FailureKind(c) = "response" =>
              MessageOf(c) = "Execution returned an invalid response object"
         /\ FailureKind(c) = "exception" =>
              MessageOf(c) =
                 IF promise[c].behaviour.exception.isError
                 THEN promise[c].behaviour.exception.message
                 ELSE "Unknown error"
    /\ \A c, d \in Calls :
         (/\ FailureKind(c) # "none"
          /\ FailureKind(d) # "none"
          /\ FailureKind(c) # FailureKind(d)
          /\ ~ThrewFixedMessage(c)
          /\ ~ThrewFixedMessage(d))
         => MessageOf(c) # MessageOf(d)

\* Two calls failed in different ways, one on a malformed success value and
\* one on a thrown Error("boom").
C5_Witness ==
    \E c, d \in Calls :
        /\ FailureKind(c) = "response"
        /\ FailureKind(d) = "exception"
        /\ promise[d].behaviour.exception = ErrorOf("boom")

\* C6 (Success pass-through): when the input passes and the handler resolves
\* with error null and a value the success schema accepts, execute resolves
\* with error null and the success schema's normalized parse of that value:
\* keys the schema does not name are gone, and foo called with { id: 1 }
\* gives { id: 1, name: "Test" }.
C6_SuccessPassThrough ==
    \A c \in Calls :
        LET v == promise[c].behaviour.value
            parsed == SafeParse(ctx.responseSchema, v.res)
        IN  /\ (/\ Resolved_(c)
                /\ InputPasses(c)
                /\ HandlerReturned(c)
                /\ v.defined
                /\ IsNull(v.err)
                /\ parsed.success)
               => /\ IsNull(settled[c].value.err)
                  /\ settled[c].value.res = parsed.data
                  /\ v.res = Obj3("id", "#1", "name", "Test", "code", "#1")
                       => settled[c].value.res = Obj2("id", "#1", "name", "Test")
            /\ (Resolved_(c) /\ ctx = foo /\ rawInput[c] = Obj1("id", "#1"))
               => settled[c].value = Envelope(Obj2("id", "#1", "name", "Test"), Null)

\* A handler's value with a key the success schema does not name came back
\* without it.
C6_Witness ==
    \E c \in Calls :
        /\ Resolved_(c)
        /\ HandlerReturned(c)
        /\ promise[c].behaviour.value.res.fields["code"] = "#1"
        /\ settled[c].value = Envelope(Obj2("id", "#1", "name", "Test"), Null)

\* What one call of execute gives when it runs alone on the contract: a
\* function of the raw input and of what the handler did.
Alone(contract, raw, p) ==
    LET parsedIn == SafeParse(contract.inputSchema, raw)
        v == p.behaviour.value
        ex == p.behaviour.exception
        parsedErr == SafeParse(contract.errorSchema, v.err)
        parsedRes == SafeParse(contract.responseSchema, v.res)
        failure(m) == Envelope(Null, Obj1("message", m))
    IN  IF ~parsedIn.success THEN failure("Invalid input")
        ELSE IF p.behaviour.type \in {"throw", "reject"}
             THEN failure(IF ex.isError THEN ex.message ELSE "Unknown error")
        ELSE IF ~v.defined THEN failure(TypeErrorMsg)
        ELSE IF ~IsNull(v.err)
             THEN IF parsedErr.success
                  THEN Envelope(Null, parsedErr.data)
                  ELSE failure("Execution returned an invalid error object")
        ELSE IF parsedRes.success
             THEN Envelope(parsedRes.data, Null)
             ELSE failure("Execution returned an invalid response object")

\* C7 (Call independence): with calls running concurrently on one contract,
\* in any interleaving, every call validates its own input once, its handler
\* is given its own parsed input, and its result is what the call would give
\* alone: a function of its own raw input and its own handler's outcome.
C7_CallIndependence ==
    \A c \in Calls :
        /\ pc[c] \notin {"NOT_CALLED", "PENDING"} =>
             /\ inputValidations[c] = 1
             /\ parsedInput[c] = SafeParse(ctx.inputSchema, rawInput[c])
        /\ promise[c].behaviour.type # "none" =>
             promise[c].behaviour \in
                 Execution(ctx.execution,
                           SafeParse(ctx.inputSchema, rawInput[c]).data)
        /\ Resolved_(c) => settled[c].value = Alone(ctx, rawInput[c], promise[c])

\* One call has resolved with a value while another, made with a different
\* input, is in its catch clause.
C7_Witness ==
    \E c, d \in Calls :
        /\ Resolved_(c)
        /\ ~IsNull(settled[c].value.res)
        /\ pc[d] = "FAULTED"
        /\ rawInput[d] # rawInput[c]

\* C8 (Resolution follows the handler): a call whose handler's promise has
\* settled resolves eventually; while the promise is unsettled the call stays
\* at the await, so a call whose handler never settles never resolves (no
\* timeout, no cancellation); and a resolved call whose input passed has a
\* handler that threw or whose promise settled.
C8_ResolutionFollowsHandler ==
    /\ \A c \in Calls : (promise[c].state = "settled") ~> Resolved_(c)
    /\ [](\A c \in Calls :
            /\ promise[c].state \in {"pending", "never"} =>
                 pc[c] = "HANDLER_RUNNING" /\ promise[c].behaviour.type = "none"
            /\ (Resolved_(c) /\ InputPasses(c)) =>
                 promise[c].state \in {"settled", "threw"})

\* One call waits on a handler that never settles while another has resolved
\* after its handler's promise rejected.
C8_Witness ==
    \E c, d \in Calls :
        /\ promise[c].state = "never"
        /\ pc[c] = "HANDLER_RUNNING"
        /\ promise[d].state = "settled"
        /\ promise[d].behaviour.type = "reject"
        /\ Resolved_(d)

\* C9 (HTTP mapping of POST /users): a POST whose body parses calls
\* createUser.execute once, with the parsed body, and answers 400 with the
\* error when the error slot is populated and 201 with the value when the
\* value slot is populated; no other status is produced.
C9_PostUsersMapping ==
    \A c \in Calls :
        (request[c].method = "POST" /\ Json(request[c].body).success) =>
            /\ route[c] = "received" => executeCalls[c] = 0 /\ ~Called(c)
            /\ route[c] \in {"awaiting", "responded"} =>
                 /\ executeCalls[c] = 1
                 /\ Called(c)
                 /\ rawInput[c] = Json(request[c].body).data
            /\ route[c] = "responded" =>
                 LET r == settled[c].value
                 IN  /\ settled[c].state = "resolved"
                     /\ ~IsNull(r.err) =>
                          response[c] = [status |-> 400, body |-> r.err]
                     /\ ~IsNull(r.res) =>
                          response[c] = [status |-> 201, body |-> r.res]
                     /\ response[c].status \in {400, 201}

\* One POST was answered 201 with the created user, another 400 with the
\* error execute resolved with.
C9_Witness ==
    \E c, d \in Calls :
        /\ route[c] = "responded"
        /\ response[c] = [status |-> 201, body |-> Obj2("id", "#1", "name", "Ann")]
        /\ route[d] = "responded"
        /\ executeCalls[d] = 1
        /\ response[d] = [status |-> 400, body |-> Obj1("message", "Invalid input")]

\* The order of phases of one call, as the state machine is stated.
StatedOrder ==
    { <<"NOT_CALLED", "PENDING">>, <<"PENDING", "INPUT_VALIDATING">>,
      <<"INPUT_VALIDATING", "REJECTED">>, <<"INPUT_VALIDATING", "HANDLER_RUNNING">>,
      <<"REJECTED", "RESOLVED">>, <<"HANDLER_RUNNING", "OUTPUT_VALIDATING">>,
      <<"OUTPUT_VALIDATING", "RESOLVED">>, <<"OUTPUT_VALIDATING", "FAULTED">>,
      <<"FAULTED", "RESOLVED">> }

\* One handler invocation, after the input validation and before any output
\* validation, and none for an input that fails.
OneInvocationInBetween(c) ==
    /\ handlerCalls'[c] <= 1
    /\ inputValidations'[c] <= 1
    /\ outputValidations'[c] <= 1
    /\ handlerCalls'[c] # handlerCalls[c] =>
         /\ pc[c] = "INPUT_VALIDATING"
         /\ inputValidations[c] = 1
         /\ outputValidations[c] = 0
         /\ InputPasses(c)
    /\ outputValidations'[c] # outputValidations[c] =>
         /\ pc[c] = "OUTPUT_VALIDATING"
         /\ handlerCalls[c] = 1

\* C10 as stated (Per-call ordering): a call moves only along PENDING,
\* INPUT_VALIDATING, REJECTED or HANDLER_RUNNING, OUTPUT_VALIDATING, RESOLVED
\* (possibly through FAULTED); a call whose input passes invokes the handler
\* exactly once, between the two validations, and does not become RESOLVED
\* without an output validation step having run.
C10_PerCallOrdering ==
    [][\A c \in Calls :
         /\ pc'[c] # pc[c] => <<pc[c], pc'[c]>> \in StatedOrder
         /\ OneInvocationInBetween(c)
         /\ (pc'[c] = "RESOLVED" /\ pc[c] # "RESOLVED" /\ InputPasses(c)) =>
              /\ handlerCalls'[c] = 1
              /\ outputValidations'[c] = 1]_vars

\* C10 as amended: as stated, except that a call whose handler throws or
\* whose handler's promise rejects goes from HANDLER_RUNNING straight to
\* FAULTED and then RESOLVED: for such a call, and only for such a call, no
\* output validation step runs.
C10_PerCallOrderingAmended ==
    [][\A c \in Calls :
         /\ pc'[c] # pc[c] =>
              \/ <<pc[c], pc'[c]>> \in StatedOrder
              \/ /\ <<pc[c], pc'[c]>> = <<"HANDLER_RUNNING", "FAULTED">>
                 /\ HandlerThrew(c)'
                 /\ caught'[c] = promise'[c].behaviour.exception
         /\ OneInvocationInBetween(c)
         /\ (pc'[c] = "RESOLVED" /\ pc[c] # "RESOLVED" /\ InputPasses(c)) =>
              /\ handlerCalls'[c] = 1
              /\ outputValidations'[c] = (IF HandlerThrew(c) THEN 0 ELSE 1)
              /\ HandlerThrew(c) \/ HandlerReturned(c)]_vars

\* A call whose handler's promise rejected has resolved after one handler
\* invocation and no output validation, next to one that resolved after an
\* output validation that failed.
C10_Witness ==
    \E c, d \in Calls :
        /\ Resolved_(c)
        /\ promise[c].behaviour.type = "reject"
        /\ handlerCalls[c] = 1
        /\ outputValidations[c] = 0
        /\ Resolved_(d)
        /\ outputValidations[d] = 1
        /\ MessageOf(d) = "Execution returned an invalid response object"

\* C11 (Handler error is authoritative): when the handler resolves with a
\* non-null error the error schema accepts, execute resolves with value null
\* and the error schema's parse of that error, whatever the handler put in
\* its value slot; only the error schema is run, the value is neither
\* validated nor returned; foo called with { id: -1 } gives
\* { value: null, error: { message: "Invalid ID" } }.
C11_HandlerErrorAuthoritative ==
    \A c \in Calls :
        LET v == promise[c].behaviour.value
            parsed == SafeParse(ctx.errorSchema, v.err)
        IN  /\ (/\ HandlerReturned(c)
                /\ v.defined
                /\ ~IsNull(v.err)
                /\ parsed.success
                /\ pc[c] \in {"FAULTED", "RESOLVED"})
               => /\ Resolved_(c)
                  /\ outputSchema[c] = "errorSchema"
                  /\ IsNull(settled[c].value.res)
                  /\ settled[c].value.err = parsed.data
            /\ (Resolved_(c) /\ ctx = foo /\ rawInput[c] = Obj1("id", "#-1"))
               => settled[c].value = Envelope(Null, Obj1("message", "Invalid ID"))

\* A handler that resolved with both slots non-null got its error back,
\* normalized, and no value.
C11_Witness ==
    \E c \in Calls :
        /\ Resolved_(c)
        /\ HandlerReturned(c)
        /\ ~IsNull(promise[c].behaviour.value.res)
        /\ promise[c].behaviour.value.err = Obj2("message", "Invalid ID", "id", "#1")
        /\ settled[c].value = Envelope(Null, Obj1("message", "Invalid ID"))

\* C12 (Output contract violation): a handler that resolves with a non-null
\* error the error schema rejects gets value null and the message "Execution
\* returned an invalid error object"; one that resolves with error null and a
\* value the success schema rejects gets value null and the message
\* "Execution returned an invalid response object"; nothing of the malformed
\* output is returned.
C12_OutputContractViolation ==
    \A c \in Calls :
        LET v == promise[c].behaviour.value
        IN  (Resolved_(c) /\ HandlerReturned(c) /\ v.defined) =>
              /\ (~IsNull(v.err) /\ ~SafeParse(ctx.errorSchema, v.err).success) =>
                   settled[c].value =
                      Envelope(Null, Obj1("message",
                          "Execution returned an invalid error object"))
              /\ (IsNull(v.err) /\ ~SafeParse(ctx.responseSchema, v.res).success) =>
                   settled[c].value =
                      Envelope(Null, Obj1("message",
                          "Execution returned an invalid response object"))

\* One call resolved after a malformed error, another after a malformed
\* value.
C12_Witness ==
    \E c, d \in Calls :
        /\ Resolved_(c)
        /\ promise[c].behaviour.value = Returned(Null, Obj1("code", "#1"))
        /\ MessageOf(c) = "Execution returned an invalid error object"
        /\ Resolved_(d)
        /\ promise[d].behaviour.value = Returned(Prim("not-an-object"), Null)
        /\ MessageOf(d) = "Execution returned an invalid response object"

\* The message the thrown value carries, "Unknown error" when it has none.
CarriedMessage(ex) == IF ex.message # Absent THEN ex.message ELSE "Unknown error"

\* C13 (Exception conversion), as stated: when the handler throws or its
\* promise rejects, execute resolves with value null and an error whose
\* message is the thrown value's message whenever it carries one, and
\* "Unknown error" only when no message is available.
C13_ExceptionConversion ==
    \A c \in Calls :
        (Resolved_(c) /\ HandlerThrew(c)) =>
            settled[c].value =
                Envelope(Null, Obj1("message",
                    CarriedMessage(promise[c].behaviour.exception)))

\* C13 (Exception conversion), amended: when the handler throws or its
\* promise rejects, execute resolves with value null and an error whose
\* message is the thrown value's message when the thrown value is an Error
\* instance, and "Unknown error" for every other thrown value, whether or
\* not it carries a message; a handler that throws Error("boom") yields
\* {value: null, error: {message: "boom"}}.
C13_ExceptionConversionAmended ==
    \A c \in Calls :
        LET ex == promise[c].behaviour.exception
        IN  (Resolved_(c) /\ HandlerThrew(c)) =>
              /\ ex.isError =>
                   settled[c].value = Envelope(Null, Obj1("message", ex.message))
              /\ ~ex.isError =>
                   settled[c].value = Envelope(Null, Obj1("message", "Unknown error"))
              /\ ex = ErrorOf("boom") =>
                   settled[c].value = Envelope(Null, Obj1("message", "boom"))

\* One call resolved after Error("boom"), another after a thrown value that
\* is not an Error but carries the message "boom".
C13_Witness ==
    \E c, d \in Calls :
        /\ Resolved_(c) /\ HandlerThrew(c)
        /\ promise[c].behaviour.exception = ErrorOf("boom")
        /\ MessageOf(c) = "boom"
        /\ Resolved_(d) /\ HandlerThrew(d)
        /\ promise[d].behaviour.exception = NonError("boom")
        /\ MessageOf(d) = "Unknown error"

====
